---- MODULE Spec2Model ----
(***************************************************************************)
(* Model of image2svg.py: six-shade quantization, the two line policies    *)
(* needLineX / needLineY, and the row scanner generateVectors with its     *)
(* alternating sweep direction, driven by main.                            *)
(*                                                                         *)
(* Python sequences are 0-based; At(row, i) reads row[i].                  *)
(***************************************************************************)
EXTENDS Integers, Sequences, FiniteSets

VARIABLES
    image,          \* main: the quantized array (sequence of rows)
    img,            \* generateVectors: the grid being scanned
    sel,            \* generateVectors: which needLine was passed, "X" or "Y"
    axes,           \* generateVectors: axes argument
    axisDimension,  \* generateVectors: axisDimension argument
    rowIndex,       \* generateVectors: enumerate index of the current row
    row,            \* generateVectors: the current row (flipped when invert)
    index,          \* generateVectors: inner loop variable, <<>> while unbound
    firstEndpoint,  \* generateVectors: start of the current run
    rowDrawn,       \* generateVectors: something was printed on this row
    invert,         \* generateVectors: sweep direction flag
    calls,          \* arguments of every svgPrint call, in order
    svgFile,        \* the <line> elements written, in order
    pc,             \* control position
    val,            \* policy evaluation: the shade passed to needLine
    drawX,          \* policy evaluation: result of needLineX
    drawY,          \* policy evaluation: result of needLineY
    px,             \* quantization: an intensity
    py,             \* quantization: a second intensity
    qx,             \* quantization: lambda(px)
    qy,             \* quantization: lambda(py)
    qqx             \* quantization: lambda(lambda(px))

vars == <<image, img, sel, axes, axisDimension, rowIndex, row, index,
          firstEndpoint, rowDrawn, invert, calls, svgFile, pc,
          val, drawX, drawY, px, py, qx, qy, qqx>>

scanVars == <<img, sel, axes, axisDimension, rowIndex, row, index,
              firstEndpoint, rowDrawn, invert, calls, svgFile>>
policyVars == <<val, drawX, drawY>>
quantVars == <<px, py, qx, qy, qqx>>

(***************************************************************************)
(* Bounds of the model.                                                    *)
(***************************************************************************)
MaxPixels == 6
MaxHeight == 2
MaxWidth == 2
MaxLen == 4
MaxIndex == 11

(***************************************************************************)
(* Shade thresholds.                                                       *)
(***************************************************************************)
shade1 == 0
shade2 == 50
shade3 == 100
shade4 == 158
shade5 == 212
shade6 == 240

MaxIntensity == 255

\* The six values the quantization lambda can return.
Buckets == {shade1, shade2, shade3, shade4, shade5, 255}

\* Shades used for whole grids: one drawn on even rows by X only, one drawn by
\* both policies on rows that are multiples of 4, one never drawn.
GridShades == {shade1, shade2, 255}

(***************************************************************************)
(* Quantization lambda of main.                                            *)
(***************************************************************************)
quantizeLighten(p) ==
    IF p < shade2 THEN shade2
    ELSE IF p < shade3 THEN shade3
    ELSE IF p < shade4 THEN shade4
    ELSE IF p < shade5 THEN shade5
    ELSE 255

quantize(p) ==
    IF p < shade2 THEN shade1
    ELSE IF p < shade3 THEN shade2
    ELSE IF p < shade4 THEN shade3
    ELSE IF p < shade5 THEN shade4
    ELSE IF p < shade6 THEN shade5
    ELSE 255

(***************************************************************************)
(* Line policies.                                                          *)
(***************************************************************************)
needLineX(v, i) ==
    IF i % 2 = 0 /\ v <= shade1 THEN TRUE
    ELSE IF i % 4 = 0 /\ v <= shade3 THEN TRUE
    ELSE IF i % 8 = 0 /\ v <= shade5 THEN TRUE
    ELSE FALSE

needLineYNoMidExclusion(v, i) ==
    IF i % 2 = 0 /\ v <= shade1 THEN FALSE
    ELSE IF i % 4 = 0 /\ v <= shade2 THEN TRUE
    ELSE IF i % 4 = 0 /\ v <= shade3 THEN TRUE
    ELSE IF i % 8 = 0 /\ v <= shade4 THEN TRUE
    ELSE FALSE

needLineYNoDarkExclusion(v, i) ==
    IF i % 4 = 0 /\ v <= shade2 THEN TRUE
    ELSE IF i % 4 = 0 /\ v <= shade3 THEN FALSE
    ELSE IF i % 8 = 0 /\ v <= shade4 THEN TRUE
    ELSE FALSE

needLineY(v, i) ==
    IF i % 2 = 0 /\ v <= shade1 THEN FALSE
    ELSE IF i % 4 = 0 /\ v <= shade2 THEN TRUE
    ELSE IF i % 4 = 0 /\ v <= shade3 THEN FALSE
    ELSE IF i % 8 = 0 /\ v <= shade4 THEN TRUE
    ELSE FALSE

\* The needLine callback generateVectors was given.
needLine(s, v, i) == IF s = "X" THEN needLineX(v, i) ELSE needLineY(v, i)

(***************************************************************************)
(* svgPrint: the <line> element written for one call.                      *)
(***************************************************************************)
svgPrint(start, stop, rowNum, inv, ax, dim) ==
    [a1 |-> IF inv THEN dim - start ELSE start,
     b1 |-> rowNum,
     a2 |-> IF inv THEN dim - stop ELSE stop,
     b2 |-> rowNum,
     axes |-> ax]

\* The arguments of one svgPrint call.
Call(start, stop, rowNum, inv, ax, dim) ==
    [start |-> start, stop |-> stop, rowNum |-> rowNum, invert |-> inv,
     axes |-> ax, axisDimension |-> dim]

(***************************************************************************)
(* Array helpers.                                                          *)
(***************************************************************************)
At(r, i) == r[i + 1]

flipud(r) == [i \in 1..Len(r) |-> r[Len(r) + 1 - i]]

swapaxes(g) ==
    IF Len(g) = 0 THEN <<>>
    ELSE [c \in 1..Len(g[1]) |-> [r \in 1..Len(g) |-> g[r][c]]]

(***************************************************************************)
(* Body of the inner loop of generateVectors for one index.  s carries the *)
(* locals firstEndpoint and rowDrawn and what was printed on this row; c   *)
(* carries row, rowIndex, invert, sel, axes and axisDimension.             *)
(***************************************************************************)
InnerStepTestsCurrentPixel(s, c, i) ==
    IF i > 0 /\ At(c.row, i) # At(c.row, i - 1)
    THEN IF needLine(c.sel, At(c.row, i), c.rowIndex)
         THEN [firstEndpoint |-> i,
               rowDrawn |-> TRUE,
               calls |-> Append(s.calls,
                   Call(s.firstEndpoint, i, c.rowIndex, c.invert, c.axes, c.axisDimension)),
               out |-> Append(s.out,
                   svgPrint(s.firstEndpoint, i, c.rowIndex, c.invert, c.axes, c.axisDimension))]
         ELSE [s EXCEPT !.firstEndpoint = i]
    ELSE s

InnerStep(s, c, i) ==
    IF i > 0 /\ At(c.row, i) # At(c.row, i - 1)
    THEN IF needLine(c.sel, At(c.row, i - 1), c.rowIndex)
         THEN [firstEndpoint |-> i,
               rowDrawn |-> TRUE,
               calls |-> Append(s.calls,
                   Call(s.firstEndpoint, i, c.rowIndex, c.invert, c.axes, c.axisDimension)),
               out |-> Append(s.out,
                   svgPrint(s.firstEndpoint, i, c.rowIndex, c.invert, c.axes, c.axisDimension))]
         ELSE [s EXCEPT !.firstEndpoint = i]
    ELSE s

RECURSIVE InnerLoop(_, _, _)
InnerLoop(s, c, i) ==
    IF i >= Len(c.row) THEN s
    ELSE InnerLoop(InnerStep(s, c, i), c, i + 1)

\* The test of the last segment after the inner loop; last is the final value
\* of index.
TrailingCheck(s, c, last) ==
    IF needLine(c.sel, At(c.row, last), c.rowIndex)
    THEN [s EXCEPT
            !.rowDrawn = TRUE,
            !.calls = Append(s.calls,
                Call(s.firstEndpoint, last, c.rowIndex, c.invert, c.axes, c.axisDimension)),
            !.out = Append(s.out,
                svgPrint(s.firstEndpoint, last, c.rowIndex, c.invert, c.axes, c.axisDimension))]
    ELSE s

\* The flag after a row.
nextInvertAlways(inv, drawn) == ~inv

nextInvert(inv, drawn) == IF drawn THEN ~inv ELSE inv

\* The row as scanned.
scanView(r, inv) == IF inv THEN flipud(r) ELSE r

\* One row of generateVectors, from the flip to the trailing check, entered
\* with the locals firstEndpoint = fe and rowDrawn = drawn.
RowResult(r, i, inv, s, ax, dim, fe, drawn) ==
    LET c == [row |-> scanView(r, inv), rowIndex |-> i, invert |-> inv,
              sel |-> s, axes |-> ax, axisDimension |-> dim]
        s0 == [firstEndpoint |-> fe, rowDrawn |-> drawn, calls |-> <<>>, out |-> <<>>]
    IN  TrailingCheck(InnerLoop(s0, c, 0), c, Len(r) - 1)

(***************************************************************************)
(* Input sets.                                                             *)
(***************************************************************************)
RowsOver(S, lo, hi) == UNION {[1..n -> S] : n \in lo..hi}

\* Rectangular, non-empty arrays as np.asarray returns them for an image, of
\* every height and width with at most MaxPixels pixels.
Shapes == {hw \in (1..MaxPixels) \X (1..MaxPixels) : hw[1] * hw[2] <= MaxPixels}
Images == UNION {[1..hw[1] -> [1..hw[2] -> GridShades]] : hw \in Shapes}

\* Any list of rows, ragged and empty ones included.
AnyGrids == UNION {[1..h -> RowsOver(GridShades, 0, MaxWidth)] : h \in 0..MaxHeight}

\* Rows that hold each of the six values exactly once.
PaletteRows == {r \in [1..6 -> Buckets] : \A i, j \in 1..6 : i # j => r[i] # r[j]}

LineIndexes == 0..MaxIndex

axesOf(s) == IF s = "X" THEN <<"x", "y">> ELSE <<"y", "x">>

IdlePolicy == val = 0 /\ drawX = FALSE /\ drawY = FALSE
IdleQuant == px = 0 /\ py = 0 /\ qx = 0 /\ qy = 0 /\ qqx = 0
IdleScan ==
    /\ image = <<>> /\ img = <<>> /\ sel = "X" /\ axes = axesOf("X")
    /\ axisDimension = 0 /\ row = <<>> /\ index = <<>>
    /\ firstEndpoint = 0 /\ rowDrawn = FALSE /\ invert = FALSE
    /\ calls = <<>> /\ svgFile = <<>>

(***************************************************************************)
(* generateVectors.                                                        *)
(***************************************************************************)
\* Entry: invert = False, nothing enumerated yet.
Enter(g, s, dim) ==
    /\ img' = g
    /\ sel' = s
    /\ axes' = axesOf(s)
    /\ axisDimension' = dim
    /\ invert' = FALSE
    /\ rowIndex' = 0 - 1
    /\ row' = <<>>
    /\ index' = <<>>
    /\ firstEndpoint' = 0
    /\ rowDrawn' = FALSE
    /\ pc' = "for"

\* The outer loop takes the next row and resets rowDrawn and firstEndpoint.
NextRow ==
    /\ pc = "for"
    /\ rowIndex + 1 < Len(img)
    /\ rowIndex' = rowIndex + 1
    /\ row' = img[rowIndex + 2]
    /\ rowDrawn' = FALSE
    /\ firstEndpoint' = 0
    /\ pc' = "body"
    /\ UNCHANGED <<image, img, sel, axes, axisDimension, index, invert, calls, svgFile>>
    /\ UNCHANGED policyVars /\ UNCHANGED quantVars

\* The rest of the outer loop body on a row that has pixels.
ScanRow ==
    /\ pc = "body"
    /\ Len(row) > 0
    /\ LET res == RowResult(row, rowIndex, invert, sel, axes, axisDimension,
                            firstEndpoint, rowDrawn)
       IN  /\ row' = scanView(row, invert)
           /\ index' = <<Len(row) - 1>>
           /\ firstEndpoint' = res.firstEndpoint
           /\ rowDrawn' = res.rowDrawn
           /\ calls' = calls \o res.calls
           /\ svgFile' = svgFile \o res.out
           /\ invert' = nextInvert(invert, res.rowDrawn)
    /\ pc' = "for"
    /\ UNCHANGED <<image, img, sel, axes, axisDimension, rowIndex>>
    /\ UNCHANGED policyVars /\ UNCHANGED quantVars

\* On a row without pixels the inner loop does not run and row[index] raises:
\* index is unbound, or left over from an earlier row and out of range.
ScanEmptyRow ==
    /\ pc = "body"
    /\ Len(row) = 0
    /\ pc' = IF index = <<>> THEN "UnboundLocalError" ELSE "IndexError"
    /\ UNCHANGED scanVars /\ UNCHANGED image
    /\ UNCHANGED policyVars /\ UNCHANGED quantVars

\* The outer loop is exhausted.
Return ==
    /\ pc = "for"
    /\ rowIndex + 1 = Len(img)
    /\ pc' = "returned"
    /\ UNCHANGED scanVars /\ UNCHANGED image
    /\ UNCHANGED policyVars /\ UNCHANGED quantVars

(***************************************************************************)
(* main: the X pass over the array, then the Y pass over its transpose.    *)
(***************************************************************************)
CallX ==
    /\ pc = "main"
    /\ Enter(image, "X", Len(image[1]))
    /\ UNCHANGED <<image, calls, svgFile>>
    /\ UNCHANGED policyVars /\ UNCHANGED quantVars

CallY ==
    /\ pc = "returned"
    /\ sel = "X"
    /\ image' = swapaxes(image)
    /\ Enter(swapaxes(image), "Y", Len(image))
    /\ UNCHANGED <<calls, svgFile>>
    /\ UNCHANGED policyVars /\ UNCHANGED quantVars

Close ==
    /\ pc = "returned"
    /\ sel = "Y"
    /\ pc' = "closed"
    /\ UNCHANGED scanVars /\ UNCHANGED image
    /\ UNCHANGED policyVars /\ UNCHANGED quantVars

Init ==
    /\ image \in Images
    /\ img = <<>> /\ sel = "X" /\ axes = axesOf("X")
    /\ axisDimension = 0 /\ rowIndex = 0 /\ row = <<>> /\ index = <<>>
    /\ firstEndpoint = 0 /\ rowDrawn = FALSE /\ invert = FALSE
    /\ calls = <<>> /\ svgFile = <<>>
    /\ pc = "main"
    /\ IdlePolicy /\ IdleQuant

Next == CallX \/ NextRow \/ ScanRow \/ Return \/ CallY \/ Close

Spec == Init /\ [][Next]_vars

(***************************************************************************)
(* generateVectors called on any list of rows with either policy.          *)
(***************************************************************************)
InitCall ==
    /\ image \in AnyGrids
    /\ img = image
    /\ sel \in {"X", "Y"}
    /\ axes = axesOf(sel)
    /\ axisDimension = (IF Len(image) = 0 THEN 0 ELSE Len(image[1]))
    /\ rowIndex = 0 - 1 /\ row = <<>> /\ index = <<>>
    /\ firstEndpoint = 0 /\ rowDrawn = FALSE /\ invert = FALSE
    /\ calls = <<>> /\ svgFile = <<>>
    /\ pc = "for"
    /\ IdlePolicy /\ IdleQuant

NextCall == NextRow \/ ScanRow \/ ScanEmptyRow \/ Return

SpecCall == InitCall /\ [][NextCall]_vars

(***************************************************************************)
(* One row of a pass: generateVectors has just taken row rowIndex.  The    *)
(* flag is False on row 0 and either value on later rows.                  *)
(***************************************************************************)
AtRow(rows) ==
    /\ image = <<>> /\ img = <<>>
    /\ row \in rows
    /\ sel \in {"X", "Y"}
    /\ axes = axesOf(sel)
    /\ axisDimension = Len(row)
    /\ rowIndex \in LineIndexes
    /\ invert \in BOOLEAN
    /\ rowIndex = 0 => ~invert
    /\ index = (IF rowIndex = 0 THEN <<>> ELSE <<Len(row) - 1>>)
    /\ firstEndpoint = 0 /\ rowDrawn = FALSE
    /\ calls = <<>> /\ svgFile = <<>>
    /\ pc = "body"
    /\ IdlePolicy /\ IdleQuant

InitLine == AtRow(RowsOver(Buckets, 1, MaxLen))

NextLine == ScanRow

SpecLine == InitLine /\ [][NextLine]_vars

InitPalette == AtRow(PaletteRows)

SpecPalette == InitPalette /\ [][NextLine]_vars

(***************************************************************************)
(* The two policies evaluated on one shade and one line index.             *)
(***************************************************************************)
InitPolicy ==
    /\ IdleScan /\ IdleQuant
    /\ val \in Buckets
    /\ rowIndex \in LineIndexes
    /\ drawX = FALSE /\ drawY = FALSE
    /\ pc = "policy"

Decide ==
    /\ pc = "policy"
    /\ drawX' = needLineX(val, rowIndex)
    /\ drawY' = needLineY(val, rowIndex)
    /\ pc' = "decided"
    /\ UNCHANGED scanVars /\ UNCHANGED <<image, val>> /\ UNCHANGED quantVars

NextPolicy == Decide

SpecPolicy == InitPolicy /\ [][NextPolicy]_vars

(***************************************************************************)
(* The quantization lambda applied to two intensities and to its own       *)
(* result.                                                                 *)
(***************************************************************************)
InitQuant ==
    /\ IdleScan /\ IdlePolicy
    /\ rowIndex = 0
    /\ px \in 0..MaxIntensity
    /\ py \in 0..MaxIntensity
    /\ qx = 0 /\ qy = 0 /\ qqx = 0
    /\ pc = "eval"

Eval ==
    /\ pc = "eval"
    /\ qx' = quantize(px)
    /\ qy' = quantize(py)
    /\ qqx' = quantize(quantize(px))
    /\ pc' = "quantized"
    /\ UNCHANGED scanVars /\ UNCHANGED <<image, px, py>> /\ UNCHANGED policyVars

NextQuant == Eval

SpecQuant == InitQuant /\ [][NextQuant]_vars

(***************************************************************************)
(* Properties.                                                             *)
(***************************************************************************)
\* What was printed, as seen from a finished row.
Scanned == pc = "for" /\ rowIndex >= 0
FlagAtScan == IF rowDrawn THEN ~invert ELSE invert
LineLength == Len(row)
Emitted == {<<calls[k].start, calls[k].stop>> : k \in 1..Len(calls)}

\* The maximal runs [s, e) of equal values of a row.
MaximalRuns(r) ==
    {se \in (0..Len(r)) \X (0..Len(r)) :
        /\ se[1] < se[2]
        /\ \A p \in se[1]..(se[2] - 1) : At(r, p) = At(r, se[1])
        /\ se[1] > 0 => At(r, se[1] - 1) # At(r, se[1])
        /\ se[2] < Len(r) => At(r, se[2]) # At(r, se[1])}

NotEmittedRuns == {se \in MaximalRuns(row) : \A k \in 1..Len(calls) : calls[k].start # se[1]}

\* C1: on every scanned line the emitted [start, stop) intervals do not
\* overlap, are strictly ordered by start, and together with the maximal runs
\* that were not emitted partition the positions 0..lineLength-1.
C1_Partition ==
    Scanned =>
        /\ \A j, k \in 1..Len(calls) :
              j < k => calls[j].start < calls[k].start /\ calls[j].stop <= calls[k].start
        /\ \A p \in 0..(LineLength - 1) :
              Cardinality({se \in Emitted \cup NotEmittedRuns : se[1] <= p /\ p < se[2]}) = 1

\* C2: scenario A.  With the horizontal policy a uniform row of four darkest
\* pixels at line 0 is printed as the single segment (0, 4), not inverted; at
\* line 1 it prints nothing and leaves the flag as it was.
C2_ScenarioA ==
    [][(pc = "body" /\ sel = "X" /\ row = <<shade1, shade1, shade1, shade1>>) =>
          /\ rowIndex = 0 =>
                calls' = Append(calls, Call(0, 4, 0, FALSE, axes, axisDimension))
          /\ rowIndex = 1 => calls' = calls /\ invert' = invert]_vars

\* C7: every emitted segment has start < stop in raw scan coordinates.
C7_StartBeforeStop ==
    Scanned => \A k \in 1..Len(calls) : calls[k].start < calls[k].stop

\* The spans written for a row, without their orientation.
SpanSet(out) ==
    {<<IF out[k].a1 <= out[k].a2 THEN out[k].a1 ELSE out[k].a2,
       IF out[k].a1 <= out[k].a2 THEN out[k].a2 ELSE out[k].a1>> : k \in 1..Len(out)}

\* C10: a line scanned with the flag set writes the same set of spans as the
\* same line scanned with the flag unset, and every written coordinate lies in
\* 0..axisDimension.
C10_SweepGeometry ==
    Scanned =>
        /\ SpanSet(svgFile) =
              SpanSet(RowResult(scanView(row, FlagAtScan), rowIndex, FALSE, sel,
                                axes, axisDimension, 0, FALSE).out)
        /\ \A k \in 1..Len(svgFile) :
              svgFile[k].a1 \in 0..axisDimension /\ svgFile[k].a2 \in 0..axisDimension

\* A grid with no lines, with a line of length 0, or with lines of differing
\* length.
Malformed(g) ==
    \/ Len(g) = 0
    \/ \E r \in 1..Len(g) : Len(g[r]) = 0
    \/ \E r1, r2 \in 1..Len(g) : Len(g[r1]) # Len(g[r2])

\* C9: a malformed grid is rejected before any processing: nothing is scanned
\* or emitted, and the call ends in a validation failure.
C9_MalformedRejected ==
    Malformed(img) =>
        /\ calls = <<>>
        /\ \/ pc = "for" /\ rowIndex = 0 - 1
           \/ pc = "ValidationError"

\* The rows of one pass on which something was printed.
DrawnRows(ax) == {calls[k].rowNum : k \in {j \in 1..Len(calls) : calls[j].axes = ax}}

\* The flag every call of a pass was made with: not inverted on the first
\* drawn row, then the opposite of the previous drawn row.
SweepsAlternate ==
    \A k \in 1..Len(calls) :
        calls[k].invert =
            (Cardinality({r \in DrawnRows(calls[k].axes) : r < calls[k].rowNum}) % 2 = 1)

\* C3: within one pass the flag starts as not inverted, toggles exactly once
\* after a line on which something was emitted and is unchanged after a line on
\* which nothing was; successive drawn lines are therefore swept in opposite
\* directions, and the Y pass starts as not inverted wherever the X pass left
\* its flag.
C3_Alternation ==
    /\ []((pc = "for" /\ rowIndex = 0 - 1) => ~invert)
    /\ []SweepsAlternate
    /\ [][/\ (pc = "body" /\ pc' = "for") =>
                 invert' = (IF Len(calls') > Len(calls) THEN ~invert ELSE invert)
          /\ (pc = "for" /\ pc' \in {"body", "returned"}) => invert' = invert
          /\ (pc = "returned" /\ pc' = "for") => ~invert']_vars

\* C3 witness: an X pass that drew on its only row and ended inverted, then a
\* Y pass that started not inverted, drew column 0, skipped columns 1 to 3 and
\* drew column 4 inverted.
C3_Witness ==
    /\ sel = "Y" /\ pc = "for" /\ rowIndex = 4 /\ ~invert
    /\ DrawnRows(axesOf("X")) = {0}
    /\ DrawnRows(axesOf("Y")) = {0, 4}
    /\ \E k \in 1..Len(calls) :
          calls[k].axes = axesOf("Y") /\ calls[k].rowNum = 4 /\ calls[k].invert

\* C4 as stated: the two policies never both return true.
C4_Original == pc = "decided" => ~(drawX /\ drawY)

\* C4: at most one of needLineX and needLineY returns true for a bucket value
\* and a line index, except that both return true exactly for shade2 on line
\* indexes that are multiples of 4 and for shade4 on multiples of 8.
C4_Amended ==
    pc = "decided" =>
        ((drawX /\ drawY) <=>
            \/ val = shade2 /\ rowIndex % 4 = 0
            \/ val = shade4 /\ rowIndex % 8 = 0)

\* C4 witness: shade3 on a multiple of 4 is drawn horizontally only.
C4_Witness ==
    pc = "decided" /\ val = shade3 /\ rowIndex % 4 = 0 /\ rowIndex > 0 /\ drawX /\ ~drawY

\* C5 as stated: needLineY is false on every even line index.
C5_Original == (pc = "decided" /\ rowIndex % 2 = 0) => ~drawY

\* C5: the vertical policy never draws the darkest bucket on an even line
\* index: needLineY(v, i) is false whenever i mod 2 = 0 and v <= shade1.
C5_Amended == (pc = "decided" /\ rowIndex % 2 = 0 /\ val <= shade1) => ~drawY

\* C5 witness: the darkest bucket on a multiple of 4, drawn horizontally only.
C5_Witness ==
    pc = "decided" /\ rowIndex = 4 /\ val = shade1 /\ drawX /\ ~drawY

\* C6: the quantized value is one of the six bucket values, quantization is
\* monotonic, and it is idempotent.
C6_Quantize ==
    pc = "quantized" =>
        /\ qx \in Buckets
        /\ px <= py => qx <= qy
        /\ qqx = qx

\* C6 witness: two neighbouring intensities on either side of the last
\* threshold.
C6_Witness ==
    pc = "quantized" /\ px = shade6 - 1 /\ py = shade6 /\ qx = shade5 /\ qy = 255 /\ qqx = shade5

\* The bucket values the active policy accepts on the current line.
Accepted == {v \in Buckets : needLine(sel, v, rowIndex)}

\* C8: on a row holding each of the six bucket values once, the number of
\* segments equals the number of accepted bucket values, and the segments begin
\* exactly at the scan positions of the accepted values' pixels.
C8_RoundTrip ==
    Scanned =>
        /\ Len(calls) = Cardinality(Accepted)
        /\ {calls[k].start : k \in 1..Len(calls)} =
              {p \in 0..(LineLength - 1) : At(row, p) \in Accepted}

\* C8 witness: a reversed row on line 8 under the vertical policy, where
\* shade2 and shade4 are accepted and the other four are not.
C8_Witness ==
    /\ Scanned /\ sel = "Y" /\ rowIndex = 8 /\ Len(calls) = 2
    /\ calls[1].invert
    /\ Accepted = {shade2, shade4}
    /\ LineLength = 6

====
